---- MODULE Spec2Model ----
(***************************************************************************)
(* One invocation of one of the two facts modules, ec2_asg_facts or        *)
(* ec2_group_facts, as a sequential program: the parameters, the           *)
(* environment (SDK importable, region, check mode, what exists in the     *)
(* cloud) are fixed at the start, the SDK's errors are chosen when the     *)
(* SDK is called, and the run ends with what it printed (exit_json /       *)
(* fail_json) or with an unhandled exception.                              *)
(***************************************************************************)
EXTENDS Integers, Sequences, FiniteSets, TLC

VARIABLES
    module_name,  \* which of the two scripts runs
    params,       \* the parameters the caller supplied (name -> value)
    check_mode,   \* the run is a check-mode run
    has_sdk,      \* HAS_BOTO / HAS_BOTO3
    region,       \* region of get_aws_connection_info ("" = none)
    cloud,        \* the ASGs / security groups that exist, in API order
    pc,           \* position in main()
    connection,   \* the SDK connection / client, once made
    asg_names,    \* ec2_asg_facts: the local asg_names (<<>> = None, <<l>> = list l)
    filters,      \* ec2_group_facts: the local filters
    calls,        \* the API query calls issued so far
    raised,       \* the exception the SDK raised, if any
    response,     \* all_asgs / groups['SecurityGroups']
    results,      \* results / snaked_groups
    output,       \* the JSON results the module emitted
    traceback     \* type of the exception that left main() unhandled ("" = none)

vars == <<module_name, params, check_mode, has_sdk, region, cloud, pc, connection,
          asg_names, filters, calls, raised, response, results, output, traceback>>

\* ---------------------------------------------------------------- bounds

\* The most ASGs / security groups the cloud holds.
MaxRecords == 2

\* ------------------------------------------------------------ small helpers

Range(s) == {s[i] : i \in 1..Len(s)}

SeqsUpTo(S, n) == UNION {[1..k -> S] : k \in 0..n}

\* module.params.get(k) / module.params[k]: a parameter that was not supplied
\* is None; Truthy is Python's `if value:` on it (None, '' and [] are false).
Supplied(k) == k \in DOMAIN params

TruthyStr(k) == Supplied(k) /\ params[k] # ""

TruthyList(k) == Supplied(k) /\ params[k] # <<>>

\* An optional parameter as a function: o is <<>> (not supplied) or <<value>>.
Opt(k, o) == IF o = <<>> THEN <<>> ELSE [x \in {k} |-> o[1]]

NoError == [type |-> "", message |-> ""]

\* ------------------------------------------------- the framework's contract

\* AnsibleModule.exit_json(**kwargs) and fail_json(**kwargs) print one JSON
\* result and end the process.
exit_json(kwargs) == [kind |-> "exit_json", kwargs |-> kwargs]

fail_json(kwargs) == [kind |-> "fail_json", kwargs |-> kwargs]

\* The options ec2_argument_spec() declares for every AWS module.
ec2_argument_spec == {"region", "ec2_url", "aws_access_key", "aws_secret_key",
                      "security_token", "profile", "validate_certs"}

\* AnsibleModule(argument_spec, supports_check_mode): the result printed while
\* the module object is built, <<>> when construction succeeds.  A parameter
\* the argument spec does not declare is rejected; a check-mode run of a
\* module that does not support check mode is skipped.
AnsibleModule(argument_spec, supports) ==
    IF ~(DOMAIN params \subseteq argument_spec)
    THEN <<fail_json([msg |-> "unsupported parameter for module"])>>
    ELSE IF check_mode /\ ~supports
    THEN <<exit_json([skipped |-> TRUE])>>
    ELSE <<>>

\* ------------------------------------------------------------ ec2_asg_facts

Tag1 == [key |-> "env", value |-> "prod"]

Tag2 == [key |-> "team", value |-> "ops"]

Inst1 == [instance_id |-> "i-1", health_status |-> "Healthy"]

Inst2 == [instance_id |-> "i-2", health_status |-> "Unhealthy"]

\* A boto AutoScalingGroup object.  tags and instances are <<>> both for an
\* empty list and for None: `if getattr(asg, "tags", None)` and `if
\* asg.instances` take the same branch for the two.
AutoScalingGroup(n, tags, instances) ==
    [name |-> n,
     availability_zones |-> IF n = "web" THEN <<"az-a", "az-b">> ELSE <<"az-c">>,
     default_cooldown |-> 300,
     desired_capacity |-> 2,
     health_check_period |-> 60,
     health_check_type |-> IF n = "web" THEN "ELB" ELSE "EC2",
     launch_config_name |-> IF n = "web" THEN "lc-web" ELSE "lc-db",
     load_balancers |-> IF n = "web" THEN <<"elb-web">> ELSE <<>>,
     max_size |-> 4,
     min_size |-> 1,
     placement_group |-> "pg-1",
     vpc_zone_identifier |-> "subnet-1,subnet-2",
     termination_policies |-> <<"Default">>,
     tags |-> tags,
     instances |-> instances]

AsgUniverse ==
    {AutoScalingGroup(n, t, i) : n \in {"web", "db"},
                                 t \in {<<>>, <<Tag1, Tag2>>},
                                 i \in {<<>>, <<Inst2, Inst1>>}}

\* The parameter sets tried: names not supplied, empty, or a list of names
\* (one of them names no ASG); health_check_type supplied or not.
AsgParams ==
    {Opt("names", n) @@ Opt("health_check_type", h) :
        n \in {<<>>, <<(<<>>)>>, <<(<<"web">>)>>, <<(<<"db", "web">>)>>, <<(<<"api">>)>>},
        h \in {<<>>, <<"ELB">>}}

\* The options of DOCUMENTATION.
AsgDocumentedOptions == {"names", "health_check_type"}

\* argument_spec of main(): ec2_argument_spec() updated with names.
asg_argument_spec == ec2_argument_spec \cup {"names"}

\* Variant: the module does not declare check-mode support.
asg_supports_check_mode_off == FALSE

asg_supports_check_mode == TRUE

\* Variant: an empty list is passed on instead of None.
NormalizeNamesRaw == IF Supplied("names") THEN <<params["names"]>> ELSE <<>>

\* asg_names = module.params.get('names'); if not asg_names: asg_names = None
NormalizeNames == IF TruthyList("names") THEN <<params["names"]>> ELSE <<>>

\* connection.get_all_groups(names): the ASGs with one of the names, all
\* ASGs when names is None (or empty), in the service's order.
get_all_groups(names) ==
    IF names = <<>> \/ names[1] = <<>>
    THEN cloud
    ELSE SelectSeq(cloud, LAMBDA a : a.name \in Range(names[1]))

AsgFixedKeys ==
    {"name", "availability_zones", "default_cooldown", "desired_capacity",
     "health_check_period", "health_check_type", "launch_config_name",
     "load_balancers", "max_size", "min_size", "placement_group",
     "vpc_zone_identifier", "termination_policies"}

\* dict((t.key, t.value) for t in asg.tags): a later tag of the same key wins.
TagsDict(tags) ==
    [k \in {t.key : t \in Range(tags)} |->
        LET last == CHOOSE i \in 1..Len(tags) :
                        /\ tags[i].key = k
                        /\ \A j \in (i+1)..Len(tags) : tags[j].key # k
        IN tags[last].value]

\* [i.instance_id for i in asg.instances]
InstanceIds(instances) == [i \in 1..Len(instances) |-> instances[i].instance_id]

\* Variant: tags and instances are set whether or not the ASG has any.
AsgDataAlways(asg) ==
    [k \in AsgFixedKeys \cup {"tags", "instances"} |->
        CASE k = "tags" -> TagsDict(asg.tags)
          [] k = "instances" -> InstanceIds(asg.instances)
          [] OTHER -> asg[k]]

\* The dictionary `data` the loop body builds for one ASG.
AsgData(asg) ==
    [k \in AsgFixedKeys
           \cup (IF asg.tags # <<>> THEN {"tags"} ELSE {})
           \cup (IF asg.instances # <<>> THEN {"instances"} ELSE {}) |->
        CASE k = "tags" -> TagsDict(asg.tags)
          [] k = "instances" -> InstanceIds(asg.instances)
          [] OTHER -> asg[k]]

\* Variant: results = [data], which keeps the last record only.
AsgAppendOverwrite(res, data) == <<data>>

\* results.append(data)
AsgAppend(res, data) == Append(res, data)

\* for asg in all_asgs: ... results.append(data), from results = res
RECURSIVE AsgLoop(_, _)
AsgLoop(all_asgs, res) ==
    IF all_asgs = <<>>
    THEN res
    ELSE AsgLoop(Tail(all_asgs), AsgAppend(res, AsgData(Head(all_asgs))))

ErrMsgs == {"Request limit exceeded", "No handler was ready to authenticate"}

\* str(e) of an SDK exception: its message.
str(e) == e.message

\* What connect_to_aws raises that main() names in its except clause.
AsgConnectErrors ==
    {[type |-> t, message |-> m] : t \in {"NoAuthHandlerFound", "AnsibleAWSError"},
                                   m \in ErrMsgs}

\* What the SDK raises when the service answers a query with an error.
AsgApiErrors == {[type |-> "BotoServerError", message |-> m] : m \in ErrMsgs}

\* argument_spec = ...; module = AnsibleModule(...); asg_names = ...
AsgParse ==
    /\ module_name = "ec2_asg_facts"
    /\ pc = "start"
    /\ LET r == AnsibleModule(asg_argument_spec, asg_supports_check_mode)
       IN IF r # <<>>
          THEN /\ output' = output \o r
               /\ pc' = "done"
               /\ UNCHANGED asg_names
          ELSE /\ asg_names' = NormalizeNames
               /\ pc' = "check_sdk"
               /\ UNCHANGED output
    /\ UNCHANGED <<module_name, params, check_mode, has_sdk, region, cloud, connection,
                   filters, calls, raised, response, results, traceback>>

\* if not HAS_BOTO: module.fail_json(msg='boto required for this module')
AsgCheckBoto ==
    /\ module_name = "ec2_asg_facts"
    /\ pc = "check_sdk"
    /\ IF ~has_sdk
       THEN /\ output' = Append(output, fail_json([msg |-> "boto required for this module"]))
            /\ pc' = "done"
       ELSE /\ pc' = "connect"
            /\ UNCHANGED output
    /\ UNCHANGED <<module_name, params, check_mode, has_sdk, region, cloud, connection,
                   asg_names, filters, calls, raised, response, results, traceback>>

\* region, ... = get_aws_connection_info(module); if region: try: connect_to_aws
\* except (NoAuthHandlerFound, AnsibleAWSError), e: fail_json(msg=str(e))
\* else: fail_json(msg="region must be specified")
AsgConnect ==
    /\ module_name = "ec2_asg_facts"
    /\ pc = "connect"
    /\ IF region # ""
       THEN \E e \in {NoError} \cup AsgConnectErrors :
               /\ raised' = e
               /\ IF e = NoError
                  THEN /\ connection' = "boto.ec2.autoscale"
                       /\ pc' = "query"
                       /\ UNCHANGED output
                  ELSE /\ output' = Append(output, fail_json([msg |-> str(e)]))
                       /\ pc' = "done"
                       /\ UNCHANGED connection
       ELSE /\ output' = Append(output, fail_json([msg |-> "region must be specified"]))
            /\ pc' = "done"
            /\ UNCHANGED <<connection, raised>>
    /\ UNCHANGED <<module_name, params, check_mode, has_sdk, region, cloud,
                   asg_names, filters, calls, response, results, traceback>>

\* all_asgs = connection.get_all_groups(asg_names), outside any try: an
\* exception of the SDK leaves main().
AsgQuery ==
    /\ module_name = "ec2_asg_facts"
    /\ pc = "query"
    /\ calls' = Append(calls, [method |-> "get_all_groups", arg |-> asg_names])
    /\ \E e \in {NoError} \cup AsgApiErrors :
          /\ raised' = e
          /\ IF e = NoError
             THEN /\ response' = get_all_groups(asg_names)
                  /\ pc' = "collect"
                  /\ UNCHANGED traceback
             ELSE /\ traceback' = e.type
                  /\ pc' = "done"
                  /\ UNCHANGED response
    /\ UNCHANGED <<module_name, params, check_mode, has_sdk, region, cloud, connection,
                   asg_names, filters, results, output>>

\* results = []; for asg in all_asgs: ...
AsgCollect ==
    /\ module_name = "ec2_asg_facts"
    /\ pc = "collect"
    /\ results' = AsgLoop(response, <<>>)
    /\ pc' = "exit"
    /\ UNCHANGED <<module_name, params, check_mode, has_sdk, region, cloud, connection,
                   asg_names, filters, calls, raised, response, output, traceback>>

\* module.exit_json(asgs=results)
AsgExit ==
    /\ module_name = "ec2_asg_facts"
    /\ pc = "exit"
    /\ output' = Append(output, exit_json([asgs |-> results]))
    /\ pc' = "done"
    /\ UNCHANGED <<module_name, params, check_mode, has_sdk, region, cloud, connection,
                   asg_names, filters, calls, raised, response, results, traceback>>

\* ---------------------------------------------------------- ec2_group_facts

\* One element of the SecurityGroups list of a describe_security_groups
\* response; Tags is there when the group has tags.
SecurityGroup(id, n, d, v, tags) ==
    [k \in {"GroupName", "GroupId", "Description", "VpcId", "OwnerId",
            "IpPermissions", "IpPermissionsEgress"}
           \cup (IF tags # <<>> THEN {"Tags"} ELSE {}) |->
        CASE k = "GroupName" -> n
          [] k = "GroupId" -> id
          [] k = "Description" -> d
          [] k = "VpcId" -> v
          [] k = "OwnerId" -> "099720109471"
          [] k = "IpPermissions" ->
                <<[IpProtocol |-> "tcp", FromPort |-> 22, ToPort |-> 22]>>
          [] k = "IpPermissionsEgress" -> <<>>
          [] k = "Tags" -> tags]

SgUniverse ==
    {SecurityGroup("sg-1", "web", "web servers", "vpc-1",
                   <<[Key |-> "env", Value |-> "prod"]>>),
     SecurityGroup("sg-2", "web", "web servers", "vpc-2", <<>>),
     SecurityGroup("sg-3", "db", "database", "vpc-1", <<>>)}

\* The parameter sets tried: each option not supplied, empty, or a value.
GroupParams ==
    {Opt("name", n) @@ Opt("description", d) @@ Opt("vpc_id", v) @@ Opt("group_id", g) :
        n \in {<<>>, <<"">>, <<"web">>},
        d \in {<<>>, <<"">>, <<"database">>},
        v \in {<<>>, <<"">>, <<"vpc-1">>},
        g \in {<<>>, <<"">>, <<"sg-2">>}}

\* argument_spec of main(): ec2_argument_spec() updated with the four options.
group_argument_spec ==
    ec2_argument_spec \cup {"name", "group_id", "description", "vpc_id"}

group_supports_check_mode == TRUE

\* Variant: `if name is not None`, so an empty string is a filter too.
BuildFilterNotNone ==
    (IF Supplied("name") THEN [x \in {"group-name"} |-> params["name"]] ELSE <<>>)
    @@ (IF Supplied("description")
        THEN [x \in {"description"} |-> params["description"]] ELSE <<>>)
    @@ (IF Supplied("vpc_id") THEN [x \in {"vpc-id"} |-> params["vpc_id"]] ELSE <<>>)
    @@ (IF Supplied("group_id") THEN [x \in {"group-id"} |-> params["group_id"]] ELSE <<>>)

\* filter = {}; if name: filter['group-name'] = name; ...
BuildFilter ==
    (IF TruthyStr("name") THEN [x \in {"group-name"} |-> params["name"]] ELSE <<>>)
    @@ (IF TruthyStr("description")
        THEN [x \in {"description"} |-> params["description"]] ELSE <<>>)
    @@ (IF TruthyStr("vpc_id") THEN [x \in {"vpc-id"} |-> params["vpc_id"]] ELSE <<>>)
    @@ (IF TruthyStr("group_id") THEN [x \in {"group-id"} |-> params["group_id"]] ELSE <<>>)

\* The order a dictionary of these keys is iterated in.
FilterKeyOrder == <<"group-name", "description", "vpc-id", "group-id">>

\* ansible_dict_to_boto3_filter_list: {k: v} to [{'Name': k, 'Values': [v]}].
ansible_dict_to_boto3_filter_list(f) ==
    LET keys == SelectSeq(FilterKeyOrder, LAMBDA k : k \in DOMAIN f)
    IN [i \in 1..Len(keys) |-> [Name |-> keys[i], Values |-> <<f[keys[i]]>>]]

\* The field of a security group an EC2 filter name selects on.
FilterField(n) ==
    CASE n = "group-name" -> "GroupName"
      [] n = "description" -> "Description"
      [] n = "vpc-id" -> "VpcId"
      [] n = "group-id" -> "GroupId"

\* connection.describe_security_groups(Filters=fs)['SecurityGroups']: the
\* groups that match every filter, in the service's order.
describe_security_groups(fs) ==
    SelectSeq(cloud, LAMBDA g :
        \A i \in 1..Len(fs) : g[FilterField(fs[i].Name)] \in Range(fs[i].Values))

\* camel_to_snake on the keys that occur.
camel_to_snake(k) ==
    CASE k = "GroupName" -> "group_name"
      [] k = "GroupId" -> "group_id"
      [] k = "Description" -> "description"
      [] k = "VpcId" -> "vpc_id"
      [] k = "OwnerId" -> "owner_id"
      [] k = "IpPermissions" -> "ip_permissions"
      [] k = "IpPermissionsEgress" -> "ip_permissions_egress"
      [] k = "Tags" -> "tags"
      [] k = "Key" -> "key"
      [] k = "Value" -> "value"
      [] k = "IpProtocol" -> "ip_protocol"
      [] k = "FromPort" -> "from_port"
      [] k = "ToPort" -> "to_port"
      [] k = "Error" -> "error"
      [] k = "Code" -> "code"
      [] k = "Message" -> "message"
      [] k = "ResponseMetadata" -> "response_metadata"
      [] k = "RequestId" -> "request_id"

\* The keys whose value is a list of dictionaries / a dictionary.
ListOfDictKeys == {"IpPermissions", "IpPermissionsEgress", "Tags"}

DictKeys == {"Error", "ResponseMetadata"}

\* camel_dict_to_snake_dict of a dictionary of scalars.
SnakeFlat(d) ==
    [s \in {camel_to_snake(k) : k \in DOMAIN d} |->
        d[CHOOSE k \in DOMAIN d : camel_to_snake(k) = s]]

\* camel_dict_to_snake_dict: every key renamed, in nested dictionaries and
\* in dictionaries inside lists too; the values are kept.
camel_dict_to_snake_dict(d) ==
    [s \in {camel_to_snake(k) : k \in DOMAIN d} |->
        LET k == CHOOSE c \in DOMAIN d : camel_to_snake(c) = s
        IN IF k \in ListOfDictKeys
           THEN [i \in 1..Len(d[k]) |-> SnakeFlat(d[k][i])]
           ELSE IF k \in DictKeys THEN SnakeFlat(d[k]) ELSE d[k]]

\* snaked_groups.append(...)
GroupAppend(res, g) == Append(res, g)

\* for group in groups['SecurityGroups']: snaked_groups.append(...)
RECURSIVE GroupLoop(_, _)
GroupLoop(groups, res) ==
    IF groups = <<>>
    THEN res
    ELSE GroupLoop(Tail(groups), GroupAppend(res, camel_dict_to_snake_dict(Head(groups))))

\* e.response of a ClientError.
ErrorResponse(e) ==
    [Error |-> [Code |-> "RequestLimitExceeded", Message |-> e.message],
     ResponseMetadata |-> [RequestId |-> "req-1"]]

\* What describe_security_groups raises: the service's error (ClientError),
\* or an error of the SDK itself before any answer (NoCredentialsError).
GroupApiErrors ==
    {[type |-> t, message |-> m] : t \in {"ClientError", "NoCredentialsError"},
                                   m \in ErrMsgs}

\* module.fail_json(msg=e.message, **camel_dict_to_snake_dict(e.response))
GroupFail(e) ==
    fail_json([msg |-> e.message] @@ camel_dict_to_snake_dict(ErrorResponse(e)))

\* Variant: an empty result is reported as a failure.
GroupEmitFailEmpty(snaked_groups) ==
    IF snaked_groups = <<>>
    THEN fail_json([msg |-> "no security group found"])
    ELSE exit_json([security_groups |-> snaked_groups])

\* module.exit_json(security_groups=snaked_groups)
GroupEmit(snaked_groups) == exit_json([security_groups |-> snaked_groups])

\* argument_spec = ...; module = AnsibleModule(...)
GroupParse ==
    /\ module_name = "ec2_group_facts"
    /\ pc = "start"
    /\ LET r == AnsibleModule(group_argument_spec, group_supports_check_mode)
       IN IF r # <<>>
          THEN /\ output' = output \o r
               /\ pc' = "done"
          ELSE /\ pc' = "check_sdk"
               /\ UNCHANGED output
    /\ UNCHANGED <<module_name, params, check_mode, has_sdk, region, cloud, connection,
                   asg_names, filters, calls, raised, response, results, traceback>>

\* if not HAS_BOTO3: module.fail_json(msg='boto3 required for this module')
GroupCheckBoto3 ==
    /\ module_name = "ec2_group_facts"
    /\ pc = "check_sdk"
    /\ IF ~has_sdk
       THEN /\ output' = Append(output, fail_json([msg |-> "boto3 required for this module"]))
            /\ pc' = "done"
       ELSE /\ pc' = "connect"
            /\ UNCHANGED output
    /\ UNCHANGED <<module_name, params, check_mode, has_sdk, region, cloud, connection,
                   asg_names, filters, calls, raised, response, results, traceback>>

\* if region: connection = boto3_conn(...) else: fail_json("region must be
\* specified").  Making a boto3 client sends nothing to the service.
GroupConnect ==
    /\ module_name = "ec2_group_facts"
    /\ pc = "connect"
    /\ IF region # ""
       THEN /\ connection' = "boto3.client.ec2"
            /\ pc' = "filter"
            /\ UNCHANGED output
       ELSE /\ output' = Append(output, fail_json([msg |-> "region must be specified"]))
            /\ pc' = "done"
            /\ UNCHANGED connection
    /\ UNCHANGED <<module_name, params, check_mode, has_sdk, region, cloud,
                   asg_names, filters, calls, raised, response, results, traceback>>

\* list_ec2_security_groups, up to filters = ansible_dict_to_boto3_filter_list(filter)
GroupFilter ==
    /\ module_name = "ec2_group_facts"
    /\ pc = "filter"
    /\ filters' = ansible_dict_to_boto3_filter_list(BuildFilter)
    /\ pc' = "query"
    /\ UNCHANGED <<module_name, params, check_mode, has_sdk, region, cloud, connection,
                   asg_names, calls, raised, response, results, output, traceback>>

\* try: groups = connection.describe_security_groups(Filters=filters)
\* except ClientError as e: module.fail_json(...)
GroupQuery ==
    /\ module_name = "ec2_group_facts"
    /\ pc = "query"
    /\ calls' = Append(calls, [method |-> "describe_security_groups", arg |-> filters])
    /\ \E e \in {NoError} \cup GroupApiErrors :
          /\ raised' = e
          /\ IF e = NoError
             THEN /\ response' = describe_security_groups(filters)
                  /\ pc' = "collect"
                  /\ UNCHANGED <<output, traceback>>
             ELSE IF e.type = "ClientError"
             THEN /\ output' = Append(output, GroupFail(e))
                  /\ pc' = "done"
                  /\ UNCHANGED <<response, traceback>>
             ELSE /\ traceback' = e.type
                  /\ pc' = "done"
                  /\ UNCHANGED <<response, output>>
    /\ UNCHANGED <<module_name, params, check_mode, has_sdk, region, cloud, connection,
                   asg_names, filters, results>>

\* snaked_groups = []; for group in groups['SecurityGroups']: ...
GroupCollect ==
    /\ module_name = "ec2_group_facts"
    /\ pc = "collect"
    /\ results' = GroupLoop(response, <<>>)
    /\ pc' = "exit"
    /\ UNCHANGED <<module_name, params, check_mode, has_sdk, region, cloud, connection,
                   asg_names, filters, calls, raised, response, output, traceback>>

\* module.exit_json(security_groups=snaked_groups)
GroupExit ==
    /\ module_name = "ec2_group_facts"
    /\ pc = "exit"
    /\ output' = Append(output, GroupEmit(results))
    /\ pc' = "done"
    /\ UNCHANGED <<module_name, params, check_mode, has_sdk, region, cloud, connection,
                   asg_names, filters, calls, raised, response, results, traceback>>

\* ------------------------------------------------------------ specification

Init ==
    /\ module_name \in {"ec2_asg_facts", "ec2_group_facts"}
    /\ params \in IF module_name = "ec2_asg_facts" THEN AsgParams ELSE GroupParams
    /\ cloud \in SeqsUpTo(IF module_name = "ec2_asg_facts" THEN AsgUniverse ELSE SgUniverse,
                          MaxRecords)
    /\ check_mode \in BOOLEAN
    /\ has_sdk \in BOOLEAN
    /\ region \in {"", "us-east-1"}
    /\ pc = "start"
    /\ connection = ""
    /\ asg_names = <<>>
    /\ filters = <<>>
    /\ calls = <<>>
    /\ raised = NoError
    /\ response = <<>>
    /\ results = <<>>
    /\ output = <<>>
    /\ traceback = ""

Next ==
    \/ AsgParse
    \/ AsgCheckBoto
    \/ AsgConnect
    \/ AsgQuery
    \/ AsgCollect
    \/ AsgExit
    \/ GroupParse
    \/ GroupCheckBoto3
    \/ GroupConnect
    \/ GroupFilter
    \/ GroupQuery
    \/ GroupCollect
    \/ GroupExit

Spec == Init /\ [][Next]_vars

\* ------------------------------------------------------------------ claims

Done == pc = "done"

Succeeded == Len(output) = 1 /\ output[1].kind = "exit_json"

Failed == Len(output) = 1 /\ output[1].kind = "fail_json"

\* The keyword the emitted record list is passed under.
RecordsKey == IF module_name = "ec2_asg_facts" THEN "asgs" ELSE "security_groups"

\* The query returned (no error), so `response` is what the API returned.
Answered == calls # <<>> /\ raised = NoError /\ pc \in {"collect", "exit", "done"}

\* C1: every run of either module ends with exactly one structured outcome:
\* nothing is emitted before the end, never two results, at the end exactly
\* one result and no unhandled exception; a success carries the record list,
\* a failure carries a message and no record list.
C1_ExactlyOneOutcome ==
    /\ Len(output) <= 1
    /\ ~Done => output = <<>>
    /\ Done => (Len(output) = 1 /\ traceback = "")
    /\ \A i \in 1..Len(output) :
          IF output[i].kind = "exit_json"
          THEN RecordsKey \in DOMAIN output[i].kwargs
          ELSE /\ "msg" \in DOMAIN output[i].kwargs
               /\ RecordsKey \notin DOMAIN output[i].kwargs

\* C2: when the SDK raised an error while connecting or querying, the run
\* ends in a failure whose msg is the exception's message, with no records.
C2_ErrorPassThrough ==
    (Done /\ raised # NoError) =>
        /\ Failed
        /\ output[1].kwargs["msg"] = raised.message
        /\ RecordsKey \notin DOMAIN output[1].kwargs

\* C3: on success the emitted list has the length of the list the API
\* returned and its i-th record is the reshaping of the API's i-th record
\* (it names the same ASG / security group).
C3_OneToOne ==
    (Done /\ Succeeded) =>
        LET recs == output[1].kwargs[RecordsKey]
        IN /\ Len(recs) = Len(response)
           /\ \A i \in 1..Len(recs) :
                 IF module_name = "ec2_asg_facts"
                 THEN /\ recs[i] = AsgData(response[i])
                      /\ recs[i]["name"] = response[i]["name"]
                 ELSE /\ recs[i] = camel_dict_to_snake_dict(response[i])
                      /\ recs[i]["group_id"] = response[i]["GroupId"]

C3_Witness ==
    /\ Done /\ Succeeded
    /\ Len(response) = 2
    /\ response[1] # response[2]
    /\ Len(output[1].kwargs[RecordsKey]) = 2

\* C4: in ec2_group_facts, when the API answered with an empty
\* SecurityGroups list the run ends in success with security_groups = [].
C4_EmptyIsSuccess ==
    (module_name = "ec2_group_facts" /\ Done /\ Answered /\ response = <<>>) =>
        /\ Succeeded
        /\ output[1].kwargs["security_groups"] = <<>>

C4_Witness ==
    /\ module_name = "ec2_group_facts" /\ Done /\ Answered
    /\ response = <<>>
    /\ cloud # <<>>
    /\ filters # <<>>
    /\ Succeeded

ReadOnlyMethods == {"get_all_groups", "describe_security_groups"}

\* C6: a run issues at most one API query call, a read-only one; a run that
\* ended in success has issued exactly one; in check mode as in normal mode.
C6_SingleReadOnlyCall ==
    /\ Len(calls) <= 1
    /\ \A i \in 1..Len(calls) : calls[i].method \in ReadOnlyMethods
    /\ (output # <<>> /\ output[1].kind = "exit_json") => Len(calls) = 1
    /\ pc \in {"start", "check_sdk", "connect", "filter", "query"} => calls = <<>>

C6_Witness == check_mode /\ Done /\ Succeeded /\ Len(calls) = 1

\* C7: ec2_asg_facts declares every option its documentation lists, so a
\* run that sets health_check_type is not rejected as an unsupported
\* parameter.
C7_HealthCheckTypeAccepted ==
    (module_name = "ec2_asg_facts" /\ Supplied("health_check_type") /\ pc # "start") =>
        /\ AsgDocumentedOptions \subseteq asg_argument_spec
        /\ ~(Failed /\ output[1].kwargs["msg"] = "unsupported parameter for module")

\* The filter name of each option of ec2_group_facts.
C8FilterName ==
    [name |-> "group-name", description |-> "description",
     vpc_id |-> "vpc-id", group_id |-> "group-id"]

\* The filter has been built.
FilterBuilt ==
    module_name = "ec2_group_facts" /\ (pc \in {"query", "collect", "exit"} \/ calls # <<>>)

\* C8: in ec2_group_facts the filter sent has an entry for an option if and
\* only if the option was supplied with a non-empty value, under the fixed
\* filter name and with the value unchanged; with nothing supplied the filter
\* is empty and all groups are returned.
C8_FilterEntries ==
    FilterBuilt =>
        /\ \A p \in DOMAIN C8FilterName :
              LET at == {i \in 1..Len(filters) : filters[i].Name = C8FilterName[p]}
              IN IF Supplied(p) /\ params[p] # ""
                 THEN /\ Cardinality(at) = 1
                      /\ \A i \in at : filters[i].Values = <<params[p]>>
                 ELSE at = {}
        /\ \A i \in 1..Len(filters) :
              filters[i].Name \in {C8FilterName[p] : p \in DOMAIN C8FilterName}
        /\ calls # <<>> => calls[1].arg = filters
        /\ (Answered /\ \A p \in DOMAIN C8FilterName : ~TruthyStr(p)) => response = cloud

C8_Witness ==
    /\ FilterBuilt /\ calls # <<>>
    /\ Supplied("name") /\ params["name"] = ""
    /\ TruthyStr("vpc_id")
    /\ ~Supplied("group_id")
    /\ Len(filters) = 1

\* The keys C9 names.
C9Keys ==
    {"name", "availability_zones", "default_cooldown", "desired_capacity",
     "health_check_period", "health_check_type", "launch_config_name",
     "load_balancers", "max_size", "min_size", "placement_group",
     "vpc_zone_identifier", "termination_policies"}

\* C9: every ec2_asg_facts record has the 13 fixed keys, copied from the
\* ASG; 'tags' is there iff the ASG has a tag and maps each tag key to its
\* value; 'instances' is there iff the ASG has an instance and lists the
\* instance ids in the API's order.
C9_AsgRecordKeys ==
    (module_name = "ec2_asg_facts" /\ pc \in {"exit", "done"} /\ Answered) =>
        /\ Len(results) = Len(response)
        /\ \A i \in 1..Len(results) :
              LET d == results[i]
                  a == response[i]
              IN /\ Cardinality(C9Keys) = 13
                 /\ C9Keys \subseteq DOMAIN d
                 /\ DOMAIN d \subseteq C9Keys \cup {"tags", "instances"}
                 /\ \A k \in C9Keys : d[k] = a[k]
                 /\ "tags" \in DOMAIN d <=> Len(a.tags) >= 1
                 /\ "tags" \in DOMAIN d =>
                       /\ DOMAIN d["tags"] = {a.tags[j].key : j \in 1..Len(a.tags)}
                       /\ \A j \in 1..Len(a.tags) : d["tags"][a.tags[j].key] = a.tags[j].value
                 /\ "instances" \in DOMAIN d <=> Len(a.instances) >= 1
                 /\ "instances" \in DOMAIN d =>
                       /\ Len(d["instances"]) = Len(a.instances)
                       /\ \A j \in 1..Len(a.instances) :
                             d["instances"][j] = a.instances[j].instance_id

C9_Witness ==
    /\ module_name = "ec2_asg_facts" /\ Done /\ Succeeded
    /\ Len(results) = 2
    /\ "tags" \in DOMAIN results[1] /\ "instances" \notin DOMAIN results[1]
    /\ "tags" \notin DOMAIN results[2] /\ "instances" \in DOMAIN results[2]

====
